---- MODULE Spec2Model ----
(***************************************************************************)
(* Botburrow Hub: the API-key store (agents table, api_key_history table), *)
(* the bearer-token verifier and the key-rotation handler.                 *)
(*                                                                         *)
(* Storage model: every repository call runs inside the caller's unit of   *)
(* work.  A unit of work reads committed rows (read committed), keeps its  *)
(* own INSERT/UPDATE invisible to the others until session.commit(), and   *)
(* an UPDATE of a row waits for another unit of work's uncommitted UPDATE  *)
(* of that row.                                                            *)
(***************************************************************************)
EXTENDS Integers, FiniteSets, Sequences, TLC

\* ------------------------------------------------------------- bounds
NumAgents == 2      \* agent ids that callers may use
NumReqs == 2        \* regenerate-key requests in flight at once
MaxKeys == 2        \* keys generate_api_key() can hand out
MaxSeed == 1        \* well-formed keys minted by callers of the repository
MaxBad == 1         \* bearer tokens that lack the key prefix
MaxTime == 2        \* clock range, in hours
MaxGrace == 1       \* largest grace_period_hours a request carries
MaxHist == 2        \* rows the api_key_history table can hold
MaxExpiry == 1      \* latest api_key_expires_at a caller sets
NumNames == 2       \* agent names callers of the repository use
MaxDelta == 1       \* largest |delta| passed to update_karma
MaxKarma == 1       \* largest |karma| the karma column is followed to

AgentIds == 1..NumAgents
Reqs == 1..NumReqs
HistIds == 1..MaxHist

NULL == 0 - 1               \* Python's None / SQL NULL

\* ------------------------------------------------------------- tokens
\* A bearer token is settings.api_key_prefix followed by a body, or a string
\* that does not start with the prefix.
GenKeys == 1..MaxKeys
SeedKeys == (MaxKeys + 1)..(MaxKeys + MaxSeed)
GoodTokens == [pfx : {TRUE}, body : GenKeys \cup SeedKeys]
BadTokens == [pfx : {FALSE}, body : 1..MaxBad]
Tokens == GoodTokens \cup BadTokens
\* a request without an Authorization header: credentials is None
NoCredentials == [pfx |-> FALSE, body |-> NULL]

KeyOf(k) == [pfx |-> TRUE, body |-> k]

\* hashlib.sha256(api_key.encode()).hexdigest(): a digest of the whole string,
\* prefix included; distinct strings have distinct digests.
StartsWithBug(tok) == TRUE
StartsWithPrefix(tok) == tok.pfx

hash_api_key(tok) == 2 * tok.body + (IF tok.pfx THEN 0 ELSE 1)

VARIABLES
    agents,       \* agents table: set of committed rows
    history,      \* api_key_history table: set of committed rows
    now,          \* datetime.now(), in hours
    nextKey,      \* next body secrets.token_bytes() yields
    req,          \* per regenerate-key request: position and locals
    registered,   \* last (id, api_key) returned by register_agent, or None
    profile       \* agents table, by id: the columns name, karma, last_active_at

vars == <<agents, history, now, nextKey, req, registered, profile>>

\* DistributedCache / AgentConfigCache: the remote store shared by the
\* processes, and per process the instance's fields and its listener task
VARIABLES
    remote,       \* Redis: cache key -> serialized value, or nothing
    memory,       \* per process: _memory_cache, a dict in insertion order
    connected,    \* per process: _connected
    listening,    \* per process: the listener task is subscribed and running
    inbox,        \* per process: messages the channel has delivered, unread
    task,         \* per process: where the listener task and disconnect() stand
    mod,          \* module cache.py: _cache, the instances made, the callers
    loader,       \* an AgentConfigLoader: config_cache, its AgentConfigCache
    hook          \* the webhook's last changed_files and the names taken from it

cvars == <<remote, memory, connected, listening, inbox, task, mod, loader, hook>>

\* ------------------------------------------------------------- cache bounds
NumProcs == 2       \* processes that hold a cache instance
NumSubjects == 2    \* agent names
NumSources == 2     \* config repositories
MemoryLimit == 2    \* entries _memory_cache may hold after a set (1000)
MaxInbox == 1       \* unread messages a subscription buffers
NumInsts == 3       \* DistributedCache instances get_cache() can make
NumCallers == 3     \* coroutines calling get_cache() / close_cache()

Procs == 1..NumProcs
Subjects == 1..NumSubjects
Sources == 1..NumSources

\* cache keys "agent:{subject}:{source}", after the instance's key prefix
CacheKeys == [subject : Subjects, source : Sources]

\* cached payloads: dicts, told apart by their "config_source" field;
\* NoSource is a dict that has no such field
NoSource == 0
Payloads == {NoSource} \cup Sources

\* json.dumps / json.loads of a payload: the stored text and back
json_dumps(v) == <<v>>
json_loads(text) == text[1]

\* Redis GET of a key the store lacks returns None
RedisNil == << >>

\* an absent agent_name / config_source of an invalidation message, and the
\* "*" of a glob pattern
Wild == 0
Events == [agent_name : Subjects \cup {Wild}, config_source : Sources \cup {Wild}]

\* the listener task of an instance and a disconnect() of it:
\*   pc: idle (awaiting the next message) -> pattern | source | scan (inside
\*       the handling of message ev, at an await) -> idle; unsub (inside
\*       except CancelledError, awaiting unsubscribe) -> ended
\*   keys_to_delete: _invalidate_by_source's list; the mirror entry of its
\*       head is deleted, the store's delete of it is awaited
\*   scan: the keys scan_iter has yet to yield
\*   owed: the mirror keys that matched ev when its handling began and
\*       have not been set since
\*   applied: the handling has removed an entry from store or mirror
\*   cut, left: the handling was cancelled; the matching keys that remained
\*   raised: the exception the last handling raised, "" for none
\*   closing: no -> joining (disconnect awaits the task) -> joined -> closed,
\*       or raised (the await of the task raised out of disconnect)
IdleTask ==
    [pc |-> "idle", ev |-> [agent_name |-> Wild, config_source |-> Wild],
     keys_to_delete |-> << >>, scan |-> {}, owed |-> {},
     applied |-> FALSE, cut |-> FALSE, left |-> {}, raised |-> "",
     unsubscribed |-> FALSE, closing |-> "no"]

\* module cache.py: the global _cache, the instances made so far with their
\* fields _connected, _redis and the state of _listener_task, and the
\* coroutines that call get_cache() or close_cache()
Insts == 1..NumInsts
Callers == 1..NumCallers
IdleCall == [op |-> "", pc |-> "idle", inst |-> NULL, saw |-> NULL, ret |-> NULL]
InitMod ==
    [cache |-> NULL, made |-> 0,
     connected |-> [i \in Insts |-> FALSE],
     redis |-> [i \in Insts |-> FALSE],
     listener |-> [i \in Insts |-> "none"],
     call |-> [c \in Callers |-> IdleCall]]

\* _memory_cache: dict operations on a sequence of (key, value) in insertion
\* order
Entry(k, v) == [key |-> k, value |-> v]
MemKeys(m) == {m[i].key : i \in 1..Len(m)}
MemGet(m, k) ==
    IF k \in MemKeys(m) THEN m[CHOOSE i \in 1..Len(m) : m[i].key = k].value ELSE NULL
MemPut(m, k, v) ==
    IF k \in MemKeys(m)
    THEN [i \in 1..Len(m) |-> IF m[i].key = k THEN Entry(k, v) ELSE m[i]]
    ELSE Append(m, Entry(k, v))
MemPopBug(m, ks) ==
    IF ks \cap MemKeys(m) = {} THEN m
    ELSE SelectSeq(m, LAMBDA e : e.key # (CHOOSE k \in ks \cap MemKeys(m) : TRUE))
MemPop(m, ks) == SelectSeq(m, LAMBDA e : e.key \notin ks)

\* set lines 195-199: more than the limit, drop the oldest half of the limit
MemTrimBug(m) ==
    IF Len(m) > MemoryLimit THEN SubSeq(m, 1, MemoryLimit \div 2) ELSE m
MemTrim(m) ==
    IF Len(m) > MemoryLimit THEN SubSeq(m, (MemoryLimit \div 2) + 1, Len(m)) ELSE m

\* ------------------------------------------------------------- rows
\* agents: primary key id, unique api_key_hash, nullable api_key_expires_at
AgentRow(a, h, exp) == [id |-> a, api_key_hash |-> h, api_key_expires_at |-> exp]

\* agents: unique name, karma with default 0, nullable last_active_at; the
\* columns of an id the table does not hold are those of NoProfile
Names == 1..NumNames
Profile(nm, ka, la) == [name |-> nm, karma |-> ka, last_active_at |-> la]
NoProfile == Profile(NULL, 0, NULL)

\* api_key_history: primary key id, agent_id references agents.id
HistoryRow(i, a, h, rot, exp) ==
    [id |-> i, agent_id |-> a, old_key_hash |-> h, rotated_at |-> rot, expires_at |-> exp]

\* ------------------------------------------------------------- queries
\* result.scalar_one_or_none(): the row, None for no row, and the exception
\* MultipleResultsFound for more than one.
scalar_one_or_none(rows) ==
    IF rows = {} THEN "none"
    ELSE IF Cardinality(rows) = 1 THEN "one"
    ELSE "MultipleResultsFound"

TheRow(rows) == CHOOSE x \in rows : TRUE

\* select(Agent).where(Agent.api_key_hash == api_key_hash)
get_by_api_key_hash(ag, h) == {r \in ag : r.api_key_hash = h}

\* select(Agent).where(Agent.id == agent_id)
get_by_id(ag, a) == {r \in ag : r.id = a}

\* select(ApiKeyHistory).where(old_key_hash == h, expires_at > now)
get_valid_old_key(hist, h, t) ==
    {e \in hist : e.old_key_hash = h /\ e.expires_at > t}

\* ------------------------------------------------------------- verify
\* verify_agent_api_key: the HTTP outcome, the id of the agent resolved and the
\* number of storage lookups made, for bearer token tok on the committed
\* tables ag, hist at time t.
Outcome(st, det, a, n) == [status |-> st, detail |-> det, agent |-> a, lookups |-> n]

\* auth.py lines 98-111: the history branch
VerifyHistory(ag, hist, h, t) ==
    LET old == get_valid_old_key(hist, h, t) IN
    IF scalar_one_or_none(old) = "MultipleResultsFound"
    THEN Outcome(500, "Internal Server Error", NULL, 2)
    ELSE IF scalar_one_or_none(old) = "none"
    THEN Outcome(401, "Invalid API key", NULL, 2)
    ELSE IF get_by_id(ag, TheRow(old).agent_id) = {}
    THEN Outcome(401, "Invalid API key", NULL, 3)
    ELSE Outcome(200, "", TheRow(old).agent_id, 3)

verify_agent_api_key(ag, hist, tok, t) ==
    IF tok = NoCredentials THEN Outcome(401, "API key required", NULL, 0)
    ELSE IF ~StartsWithPrefix(tok) THEN Outcome(403, "Invalid API key format", NULL, 0)
    ELSE LET cur == get_by_api_key_hash(ag, hash_api_key(tok)) IN
         IF scalar_one_or_none(cur) = "MultipleResultsFound"
         THEN Outcome(500, "Internal Server Error", NULL, 1)
         ELSE IF scalar_one_or_none(cur) = "one"
         THEN Outcome(200, "", TheRow(cur).id, 1)
         ELSE VerifyHistory(ag, hist, hash_api_key(tok), t)

\* ------------------------------------------------------------- requests
\* One regenerate_api_key request: where it stands and its locals.
\*   pc: idle -> prepared -> checked -> inserted -> updated -> done
\*   began_at: the clock when the handler computed the grace expiry
\*   token, lookups: kept for a request that authentication turned away;
\*          lookups = 3 on an accepted one says the key matched a ledger row
\*   raced: the requests that had passed the old-hash check on the same agent
\*          with the same old_key_hash, uncommitted, when this one passed it
IdleReq ==
    [pc |-> "idle", token |-> NoCredentials, agent_id |-> NULL,
     old_key_hash |-> NULL, began_at |-> NULL, grace |-> NULL,
     grace_exp |-> NULL, new_key |-> NULL, rotated_at |-> NULL,
     hist_id |-> NULL, status |-> NULL, lookups |-> NULL, repo |-> "",
     raced |-> {}]

GraceHours == 0..MaxGrace
\* RegenerateKeyRequest.grace_period_hours: Field(ge=0, le=168), the upper
\* limit scaled to MaxGrace; and the values outside it a client can send
ValidGraceBug(g) == TRUE
ValidGrace(g) == 0 <= g /\ g <= MaxGrace
BadGraceHours == {0 - 2, MaxGrace + 1}
Expiries == {NULL} \cup (1..MaxExpiry)

\* an AgentConfigLoader before initialize_cache: self.cache is None,
\* config_cache is empty.  cache: self.cache is an AgentConfigCache;
\* connected: its _connected; store, mirror: the keys its Redis and its
\* _memory_cache hold; config_cache: the keys of self.config_cache; tree: the
\* revision of the repositories' working trees
InitLoader ==
    [cache |-> FALSE, connected |-> FALSE, store |-> {}, mirror |-> {},
     config_cache |-> {}, tree |-> 0]

\* no webhook has been served
InitHook == [changed_files |-> << >>, agent_names |-> << >>]

Init ==
    /\ agents = {}
    /\ history = {}
    /\ now = 0
    /\ nextKey = 1
    /\ req = [r \in Reqs |-> IdleReq]
    /\ registered = [id |-> NULL, api_key |-> NULL]
    /\ profile = [a \in AgentIds |-> NoProfile]
    /\ remote = [k \in CacheKeys |-> RedisNil]
    /\ memory = [p \in Procs |-> << >>]
    /\ connected = [p \in Procs |-> FALSE]
    /\ listening = [p \in Procs |-> FALSE]
    /\ inbox = [p \in Procs |-> << >>]
    /\ task = [p \in Procs |-> IdleTask]
    /\ mod = InitMod
    /\ loader = InitLoader
    /\ hook = InitHook

\* generate_api_key(): prefix + fresh random bytes
generate_api_key == KeyOf(nextKey)

\* the request has its response: status, and what update_api_key made of it
\* regenerate_api_key line 246: datetime.now() + timedelta(hours=g)
grace_period_expires_at(t, g) == t + g

Finish(r, st, why) ==
    [req EXCEPT ![r] = [IdleReq EXCEPT !.pc = "done", !.status = st, !.repo = why,
                           !.agent_id = req[r].agent_id,
                           !.old_key_hash = req[r].old_key_hash,
                           !.raced = req[r].raced]]

\* Depends(verify_agent_api_key), the validation of the request body, then
\* regenerate_api_key lines 243-264
RotBegin(r, tok, g) ==
    /\ req[r].pc = "idle"
    /\ LET v == verify_agent_api_key(agents, history, tok, now) IN
       IF v.status # 200
       THEN /\ req' = [Finish(r, v.status, "auth") EXCEPT
                           ![r].token = tok, ![r].lookups = v.lookups]
            /\ UNCHANGED nextKey
       ELSE IF ~ValidGrace(g)
       THEN /\ req' = [Finish(r, 422, "validation") EXCEPT ![r].grace = g]
            /\ UNCHANGED nextKey
       ELSE /\ nextKey <= MaxKeys
            /\ req' = [req EXCEPT ![r] =
                   [IdleReq EXCEPT !.pc = "prepared",
                       !.agent_id = v.agent, !.lookups = v.lookups,
                       !.old_key_hash = TheRow(get_by_id(agents, v.agent)).api_key_hash,
                       !.began_at = now, !.grace = g,
                       !.grace_exp = grace_period_expires_at(now, g),
                       !.new_key = generate_api_key.body]]
            /\ nextKey' = nextKey + 1
    /\ UNCHANGED <<agents, history, now, registered, profile>>
    /\ UNCHANGED cvars

\* update_api_key line 366: the old-hash precondition
OldHashMatchesBug(row, old) == TRUE
OldHashMatches(row, old) == row.api_key_hash = old

Uncommitted(r2, a) == req[r2].pc \in {"checked", "inserted", "updated"} /\ req[r2].agent_id = a

\* update_api_key lines 357-370: rotated_at, the re-read and the check
RotCheck(r) ==
    /\ req[r].pc = "prepared"
    /\ LET rows == get_by_id(agents, req[r].agent_id) IN
       IF rows = {}
       THEN req' = Finish(r, 500, "not_found")
       ELSE IF ~OldHashMatches(TheRow(rows), req[r].old_key_hash)
       THEN req' = Finish(r, 409, "mismatch")
       ELSE req' = [req EXCEPT ![r].pc = "checked", ![r].rotated_at = now,
                       ![r].raced = {r2 \in Reqs \ {r} :
                           /\ Uncommitted(r2, req[r].agent_id)
                           /\ req[r2].old_key_hash = req[r].old_key_hash}]
    /\ UNCHANGED <<agents, history, now, nextKey, registered, profile>>
    /\ UNCHANGED cvars

FreeHistIds ==
    HistIds \ ({e.id : e \in history} \cup {req[r2].hist_id : r2 \in Reqs})

\* update_api_key lines 372-379: ApiKeyHistoryRepository.create and its flush
RotInsert(r) ==
    /\ req[r].pc = "checked"
    /\ IF get_by_id(agents, req[r].agent_id) = {}
       THEN req' = Finish(r, 500, "foreign_key")
       ELSE /\ FreeHistIds # {}
            /\ req' = [req EXCEPT ![r].pc = "inserted",
                          ![r].hist_id = CHOOSE i \in FreeHistIds :
                                             \A j \in FreeHistIds : i <= j]
    /\ UNCHANGED <<agents, history, now, nextKey, registered, profile>>
    /\ UNCHANGED cvars

\* the rows other units of work see after this one's flush of the UPDATE
FlushedAgentsBug(r) ==
    {IF row.id = req[r].agent_id
     THEN [row EXCEPT !.api_key_hash = hash_api_key(KeyOf(req[r].new_key))]
     ELSE row : row \in agents}
FlushedAgents(r) == agents

\* update_api_key lines 381-383: agent.api_key_hash = new_api_key_hash, flush
RotUpdate(r) ==
    /\ req[r].pc = "inserted"
    /\ ~\E r2 \in Reqs \ {r} : req[r2].pc = "updated" /\ req[r2].agent_id = req[r].agent_id
    /\ IF \E row \in agents : /\ row.id # req[r].agent_id
                              /\ row.api_key_hash = hash_api_key(KeyOf(req[r].new_key))
       THEN /\ req' = Finish(r, 500, "unique")
            /\ UNCHANGED agents
       ELSE /\ req' = [req EXCEPT ![r].pc = "updated"]
            /\ agents' = FlushedAgents(r)
    /\ UNCHANGED <<history, now, nextKey, registered, profile>>
    /\ UNCHANGED cvars

\* the tables after session.commit() of request r's unit of work; nexp is
\* the request's new_expires_at, parsed at lines 249-257 and first used here
CommittedAgents(r, nexp) ==
    {IF row.id = req[r].agent_id
     THEN [row EXCEPT !.api_key_hash = hash_api_key(KeyOf(req[r].new_key)),
                      !.api_key_expires_at =
                          IF nexp # NULL THEN nexp ELSE @]
     ELSE row : row \in agents}

CommittedHistory(r) ==
    history \cup {HistoryRow(req[r].hist_id, req[r].agent_id,
                             req[r].old_key_hash, req[r].rotated_at, req[r].grace_exp)}

\* regenerate_api_key lines 276-280: new expiry, session.commit()
RotCommit(r, nexp) ==
    /\ req[r].pc = "updated"
    /\ agents' = CommittedAgents(r, nexp)
    /\ history' = CommittedHistory(r)
    /\ req' = Finish(r, 200, "ok")
    /\ UNCHANGED <<now, nextKey, registered, profile>>
    /\ UNCHANGED cvars

\* regenerate_api_key lines 287-307: the response leaves, the session closes
Respond(r) ==
    /\ req[r].pc = "done"
    /\ req' = [r2 \in Reqs |->
                 IF r2 = r THEN IdleReq
                 ELSE [req[r2] EXCEPT !.raced = @ \ {r}]]
    /\ UNCHANGED <<agents, history, now, nextKey, registered, profile>>
    /\ UNCHANGED cvars

\* ------------------------------------------------------------- repository
\* hashes a caller of AgentRepository.create can pass: of a key minted
\* outside the handler, of a prefix-less string, or one the tables hold
CallerHashes ==
    {hash_api_key(t) : t \in [pfx : {TRUE}, body : SeedKeys] \cup BadTokens}
        \cup {e.old_key_hash : e \in history}

\* AgentRepository.create: INSERT under the primary key and the unique index
\* on api_key_hash
CreateNamed(a, nm, h, exp) ==
    /\ get_by_id(agents, a) = {}
    /\ get_by_api_key_hash(agents, h) = {}
    /\ \A b \in AgentIds : profile[b].name # nm
    /\ agents' = agents \cup {AgentRow(a, h, exp)}
    /\ profile' = [profile EXCEPT ![a] = Profile(nm, 0, NULL)]
    /\ UNCHANGED <<history, now, nextKey, req, registered>>
    /\ UNCHANGED cvars

\* the callers that name the agent after its id
Create(a, h, exp) == CreateNamed(a, a, h, exp)

\* AgentRepository.delete: DELETE, with ON DELETE CASCADE on api_key_history;
\* it waits for units of work that hold uncommitted rows of the agent
Delete(a) ==
    /\ get_by_id(agents, a) # {}
    /\ ~\E r \in Reqs : req[r].pc \in {"inserted", "updated"} /\ req[r].agent_id = a
    /\ agents' = {row \in agents : row.id # a}
    /\ history' = {e \in history : e.agent_id # a}
    /\ profile' = [profile EXCEPT ![a] = NoProfile]
    /\ UNCHANGED <<now, nextKey, req, registered>>
    /\ UNCHANGED cvars

\* AgentRepository.update_karma: UPDATE agents SET karma = karma + delta;
\* it waits for a unit of work that holds an uncommitted UPDATE of the row
Deltas == (0 - MaxDelta)..MaxDelta
update_karma(pr, delta) == [pr EXCEPT !.karma = @ + delta]

UpdateKarma(a, delta) ==
    /\ get_by_id(agents, a) # {}
    /\ ~\E r \in Reqs : req[r].pc = "updated" /\ req[r].agent_id = a
    /\ update_karma(profile[a], delta).karma \in (0 - MaxKarma)..MaxKarma
    /\ profile' = [profile EXCEPT ![a] = update_karma(@, delta)]
    /\ UNCHANGED <<agents, history, now, nextKey, req, registered>>
    /\ UNCHANGED cvars

\* AgentRepository.update_last_active: SET last_active_at = now()
UpdateLastActive(a) ==
    /\ get_by_id(agents, a) # {}
    /\ ~\E r \in Reqs : req[r].pc = "updated" /\ req[r].agent_id = a
    /\ profile' = [profile EXCEPT ![a].last_active_at = now]
    /\ UNCHANGED <<agents, history, now, nextKey, req, registered>>
    /\ UNCHANGED cvars

\* ApiKeyHistoryRepository.delete_expired: the rows left, and the rowcount
delete_expiredBug(hist, t) == {e \in hist : ~(e.expires_at <= t + 1)}
delete_expired(hist, t) == {e \in hist : ~(e.expires_at <= t)}

delete_expired_rowcount(hist, t) ==
    Cardinality({e \in hist : e.expires_at <= t})

DeleteExpired ==
    /\ history' = delete_expired(history, now)
    /\ UNCHANGED <<agents, now, nextKey, req, registered, profile>>
    /\ UNCHANGED cvars

\* register_agent: a fresh id and key are returned; nothing is stored
RegisterAgent(a) ==
    /\ nextKey <= MaxKeys
    /\ registered' = [id |-> a, api_key |-> generate_api_key.body]
    /\ nextKey' = nextKey + 1
    /\ UNCHANGED <<agents, history, now, req, profile>>
    /\ UNCHANGED cvars

Tick ==
    /\ now < MaxTime
    /\ now' = now + 1
    /\ UNCHANGED <<agents, history, nextKey, req, registered, profile>>
    /\ UNCHANGED cvars

Next ==
    \/ \E r \in Reqs, tok \in Tokens \cup {NoCredentials}, g \in GraceHours :
           RotBegin(r, tok, g)
    \/ \E r \in Reqs : RotCheck(r)
    \/ \E r \in Reqs : RotInsert(r)
    \/ \E r \in Reqs : RotUpdate(r)
    \/ \E r \in Reqs, nexp \in Expiries : RotCommit(r, nexp)
    \/ \E r \in Reqs : Respond(r)
    \/ \E a \in AgentIds, h \in CallerHashes, exp \in Expiries : Create(a, h, exp)
    \/ \E a \in AgentIds : Delete(a)
    \/ DeleteExpired
    \/ Tick

Spec == Init /\ [][Next]_vars

\* registration beside the repository operations
RegNext ==
    \/ \E a \in AgentIds : RegisterAgent(a)
    \/ \E a \in AgentIds, h \in CallerHashes, exp \in Expiries : Create(a, h, exp)
    \/ \E a \in AgentIds : Delete(a)
    \/ Tick

RegSpec == Init /\ [][RegNext]_vars

\* the whole of AgentRepository beside one rotation at a time: agents are
\* created under any name, their runtime columns are updated, and clients
\* send any grace_period_hours
OneReq == {1}

RepoNext ==
    \/ \E r \in OneReq, tok \in GoodTokens, g \in GraceHours \cup BadGraceHours :
           RotBegin(r, tok, g)
    \/ \E r \in OneReq : RotCheck(r)
    \/ \E r \in OneReq : RotInsert(r)
    \/ \E r \in OneReq : RotUpdate(r)
    \/ \E r \in OneReq : RotCommit(r, NULL)
    \/ \E r \in OneReq : Respond(r)
    \/ \E a \in AgentIds, nm \in Names, tok \in Tokens \ [pfx : {TRUE}, body : GenKeys] :
           CreateNamed(a, nm, hash_api_key(tok), NULL)
    \/ \E a \in AgentIds : Delete(a)
    \/ \E a \in AgentIds, delta \in Deltas : UpdateKarma(a, delta)
    \/ \E a \in AgentIds : UpdateLastActive(a)
    \/ DeleteExpired
    \/ now < MaxTime - 1 /\ Tick

RepoSpec == Init /\ [][RepoNext]_vars

\* AgentRepository.update_api_key called on its own, as one unit of work,
\* by a caller that passes the agent's current hash as old_key_hash, any
\* well-formed key's hash as the new one and any grace period
KeyHashes == {hash_api_key(t) : t \in GoodTokens}

UpdateApiKey(a, h, g) ==
    /\ get_by_id(agents, a) # {}
    /\ \A r \in Reqs : req[r].pc = "idle"
    /\ \A row \in agents : row.id # a => row.api_key_hash # h
    /\ FreeHistIds # {}
    /\ LET old_key_hash == TheRow(get_by_id(agents, a)).api_key_hash IN
       /\ OldHashMatches(TheRow(get_by_id(agents, a)), old_key_hash)
       /\ history' = history \cup
              {HistoryRow(CHOOSE i \in FreeHistIds : \A j \in FreeHistIds : i <= j,
                          a, old_key_hash, now, grace_period_expires_at(now, g))}
    /\ agents' = {IF row.id = a THEN [row EXCEPT !.api_key_hash = h] ELSE row :
                    row \in agents}
    /\ UNCHANGED <<now, nextKey, req, registered, profile>>
    /\ UNCHANGED cvars

\* the repository's operations on the two tables, each as one unit of work
LedgerNext ==
    \/ \E a \in AgentIds, h \in CallerHashes, exp \in Expiries : Create(a, h, exp)
    \/ \E a \in AgentIds, h \in KeyHashes, g \in GraceHours : UpdateApiKey(a, h, g)
    \/ \E a \in AgentIds : Delete(a)
    \/ DeleteExpired
    \/ Tick

LedgerSpec == Init /\ [][LedgerNext]_vars

\* ------------------------------------------------------------- properties
\* the bearer token whose digest is h
TokenOf(h) == CHOOSE t \in Tokens : hash_api_key(t) = h

Verify(tok) == verify_agent_api_key(agents, history, tok, now)
VerifyNext(tok) == verify_agent_api_key(agents', history', tok, now')

HashOf(ag, a) == TheRow(get_by_id(ag, a)).api_key_hash

\* request r's unit of work commits in this step
Commits(r) == req[r].pc = "updated" /\ req'[r].pc = "done"

\* C1: two rotations of one agent that both pass the old-hash check on the
\* same old hash before either commits do not both succeed: one returns 200,
\* the other 409, and the ledger gains one row for the old hash (storage
\* errors, status 500, aside).
C1_RaceRejection ==
    \A r1 \in Reqs, r2 \in Reqs :
        ( /\ r1 # r2
          /\ r1 \in req[r2].raced
          /\ req[r1].pc = "done" /\ req[r2].pc = "done"
          /\ req[r1].status # 500 /\ req[r2].status # 500 )
        => /\ {req[r1].status, req[r2].status} = {200, 409}
           /\ Cardinality({e \in history : /\ e.agent_id = req[r2].agent_id
                                           /\ e.old_key_hash = req[r2].old_key_hash}) = 1

\* C2: a rotation request authenticated by a retired key (one that matched a
\* ledger row, not the agent's current hash) never commits a new current hash.
C2_RetiredKeyNeverRotates ==
    [][\A r \in Reqs : Commits(r) => req[r].lookups # 3]_vars

\* C3: a committing rotation adds exactly one ledger row, (agent_id,
\* old_key_hash, expires_at = time of the request + grace), and sets the
\* agent's hash to the new key's, in the same step; and in no step does a
\* stored agent's hash change without a ledger row of that agent being
\* added, or a ledger row appear without that agent's hash changing.
C3_RotationAtomic ==
    [][ /\ \A r \in Reqs : Commits(r) =>
              /\ \E e \in history' \ history :
                    /\ history' \ history = {e}
                    /\ e.agent_id = req[r].agent_id
                    /\ e.old_key_hash = req[r].old_key_hash
                    /\ e.expires_at = req[r].began_at + req[r].grace
              /\ HashOf(agents', req[r].agent_id) = hash_api_key(KeyOf(req[r].new_key))
        /\ \A a \in AgentIds :
              (get_by_id(agents, a) # {} /\ get_by_id(agents', a) # {}) =>
                  ( HashOf(agents', a) # HashOf(agents, a)
                    <=> \E e \in history' \ history : e.agent_id = a )
      ]_vars

\* C3 witness: a request has committed and its ledger row is stored
C3_Witness ==
    \E r \in Reqs : /\ req[r].pc = "done" /\ req[r].repo = "ok"
                    /\ \E e \in history : /\ e.agent_id = req[r].agent_id
                                          /\ e.old_key_hash = req[r].old_key_hash
                                          /\ e.expires_at > e.rotated_at

C5_GraceWindow ==
    \A e \in history :
        ( /\ get_by_id(agents, e.agent_id) # {}
          /\ get_by_api_key_hash(agents, e.old_key_hash) = {} )
        => IF now < e.expires_at
           THEN /\ Verify(TokenOf(e.old_key_hash)).status = 200
                /\ Verify(TokenOf(e.old_key_hash)).agent = e.agent_id
           ELSE Verify(TokenOf(e.old_key_hash)).status # 200

\* C6: in the state a rotation with a positive grace period commits into,
\* still inside the grace window and with the old hash held by no agent as
\* current hash, verify of the old key and of the new key both return the
\* rotated agent, and verify of a key generate_api_key has not handed out
\* yet fails.
C6_BothKeysAfterRotation ==
    [][\A r \in Reqs :
          ( /\ Commits(r) /\ req[r].grace > 0 /\ now' < req[r].grace_exp
            /\ get_by_api_key_hash(agents', req[r].old_key_hash) = {} ) =>
              /\ VerifyNext(TokenOf(req[r].old_key_hash)).status = 200
              /\ VerifyNext(TokenOf(req[r].old_key_hash)).agent = req[r].agent_id
              /\ VerifyNext(KeyOf(req[r].new_key)).status = 200
              /\ VerifyNext(KeyOf(req[r].new_key)).agent = req[r].agent_id
              /\ \A k \in GenKeys : k >= nextKey' => VerifyNext(KeyOf(k)).status # 200
      ]_vars

\* C7: the key register_agent returned verifies and resolves to the id it
\* returned.
C7_RegisteredKeyVerifies ==
    registered.api_key # NULL =>
        /\ Verify(KeyOf(registered.api_key)).status = 200
        /\ Verify(KeyOf(registered.api_key)).agent = registered.id

\* C8: verify of an agent's current key fails once the agent's
\* api_key_expires_at has passed.
C8_ExpiredCurrentKeyRejected ==
    \A row \in agents :
        (row.api_key_expires_at # NULL /\ row.api_key_expires_at < now)
        => Verify(TokenOf(row.api_key_hash)).status # 200

\* C9: no hash is the current hash of two agents, and no hash is the current
\* hash of one agent and a ledger hash of another.
C9_HashIdentifiesOneAgent ==
    /\ \A r1 \in agents, r2 \in agents :
          r1.api_key_hash = r2.api_key_hash => r1.id = r2.id
    /\ \A row \in agents, e \in history :
          e.old_key_hash = row.api_key_hash => e.agent_id = row.id

\* C10: a token without the key prefix gets 403 "Invalid API key format" with
\* no storage lookup, in every state of the tables, and every request that
\* carried one ended that way.
C10_FormatRejection ==
    /\ \A tok \in BadTokens :
          Verify(tok) = Outcome(403, "Invalid API key format", NULL, 0)
    /\ \A r \in Reqs :
          (req[r].pc = "done" /\ req[r].repo = "auth" /\ req[r].token \in BadTokens)
          => req[r].status = 403 /\ req[r].lookups = 0

\* C10 witness: a request with a prefix-less token was turned away while the
\* digest of that token is an agent's stored api_key_hash
C10_Witness ==
    \E r \in Reqs :
        /\ req[r].pc = "done" /\ req[r].repo = "auth" /\ req[r].token \in BadTokens
        /\ get_by_api_key_hash(agents, hash_api_key(req[r].token)) # {}

\* C11: verify answers every invalid token alike: a token without the prefix,
\* a well-formed token no table holds and a retired key whose grace window
\* has passed get the same status and the same detail.
C11_UniformInvalid ==
    \A t1 \in Tokens, t2 \in Tokens :
        (Verify(t1).status \notin {200, 500} /\ Verify(t2).status \notin {200, 500})
        => /\ Verify(t1).status = Verify(t2).status
           /\ Verify(t1).detail = Verify(t2).detail

\* the hashes agent a holds or held: its current hash and its ledger hashes
KeysOf(a) ==
    {row.api_key_hash : row \in get_by_id(agents, a)}
        \cup {e.old_key_hash : e \in {x \in history : x.agent_id = a}}

\* C12: in the state a delete of agent a leaves, the ledger holds no row of
\* a, and verify succeeds for no key a held before the delete, current or
\* retired, inside or outside its grace window.
C12_DeleteRevokesAll ==
    [][\A a \in AgentIds :
          (get_by_id(agents, a) # {} /\ get_by_id(agents', a) = {}) =>
              /\ \A e \in history' : e.agent_id # a
              /\ \A h \in KeysOf(a) : VerifyNext(TokenOf(h)).status # 200
      ]_vars

\* C26: every ledger row a rotation commits expires at least 0 and at most
\* MaxGrace hours (the scaled 168) after the clock read of the request that
\* made it, and at most MaxGrace hours after its rotated_at; a request enters
\* the handler only with grace_period_hours in [0, MaxGrace]; and a request
\* turned away for its grace_period_hours gets status 422 and leaves the
\* agents and the ledger as they were.
C26_GraceBounded ==
    [][\A r \in Reqs :
          /\ Commits(r) =>
                \A e \in history' \ history :
                    /\ e.expires_at - req[r].began_at \in 0..MaxGrace
                    /\ e.expires_at - e.rotated_at <= MaxGrace
          /\ (req[r].pc = "idle" /\ req'[r].pc = "prepared") =>
                ValidGrace(req'[r].grace)
          /\ (req[r].pc = "idle" /\ req'[r].repo = "validation") =>
                /\ ~ValidGrace(req'[r].grace)
                /\ req'[r].pc = "done" /\ req'[r].status = 422
                /\ agents' = agents /\ history' = history
      ]_vars

\* C26 witness: a request with grace_period_hours above the limit has been
\* turned away while the ledger holds a row with the longest window
C26_Witness ==
    \E r \in Reqs, e \in history :
        /\ req[r].pc = "done" /\ req[r].status = 422
        /\ req[r].grace = MaxGrace + 1
        /\ e.expires_at - e.rotated_at = MaxGrace
        /\ get_by_id(agents, e.agent_id) # {}

\* C27: in every step that neither creates nor deletes an agent the stored
\* ids are the same, and an agent stored before and after keeps its name;
\* its hash changes only in the commit of a rotation of that very agent,
\* which returns 200 and sets the hash of the key it generated; a step that
\* changes its karma or last_active_at, or only removes ledger rows, leaves
\* its row of agents as it was.
C27_HashFrame ==
    [][/\ Cardinality(agents') = Cardinality(agents) =>
              {row.id : row \in agents'} = {row.id : row \in agents}
       /\ \A a \in AgentIds :
              (get_by_id(agents, a) # {} /\ get_by_id(agents', a) # {}) =>
                  /\ profile'[a].name = profile[a].name
                  /\ HashOf(agents', a) # HashOf(agents, a) =>
                        \E r \in Reqs :
                            /\ Commits(r) /\ req'[r].status = 200
                            /\ req[r].agent_id = a
                            /\ HashOf(agents', a) = hash_api_key(KeyOf(req[r].new_key))
                  /\ ( \/ profile'[a].karma # profile[a].karma
                       \/ profile'[a].last_active_at # profile[a].last_active_at
                       \/ (history' # history /\ history' \subseteq history) ) =>
                        get_by_id(agents', a) = get_by_id(agents, a)
      ]_vars

\* C27 witness: an agent named otherwise than its id, whose karma and
\* last_active_at were updated, holds a rotated key, next to another agent,
\* after the sweep has emptied the ledger
C27_Witness ==
    \E a \in AgentIds, b \in AgentIds :
        /\ a # b /\ get_by_id(agents, a) # {} /\ get_by_id(agents, b) # {}
        /\ profile[a].name # a
        /\ profile[a].karma # 0 /\ profile[a].last_active_at # NULL
        /\ \E k \in GenKeys : HashOf(agents, a) = hash_api_key(KeyOf(k))
        /\ history = {}

\* C28: in every step the karma of an agent stored before and after it is
\* greater than or equal to its karma before.
C28_KarmaMonotone ==
    [][\A a \in AgentIds :
          (get_by_id(agents, a) # {} /\ get_by_id(agents', a) # {}) =>
              profile'[a].karma >= profile[a].karma
      ]_vars

\* C30: in every reachable state the sweep at the current time removes
\* exactly the ledger rows with expires_at <= now, its rowcount is their
\* number, no row it removes is one get_valid_old_key returns now or later,
\* and for every token and every time from now on verify has the same
\* outcome on the swept ledger as on the unswept one.
C30_SweepExact ==
    LET swept == delete_expired(history, now) IN
    /\ swept \subseteq history
    /\ history \ swept = {e \in history : e.expires_at <= now}
    /\ delete_expired_rowcount(history, now) = Cardinality(history) - Cardinality(swept)
    /\ \A t \in now..MaxTime :
          /\ \A e \in history \ swept :
                e \notin get_valid_old_key(history, e.old_key_hash, t)
          /\ \A tok \in Tokens \cup {NoCredentials} :
                verify_agent_api_key(agents, swept, tok, t)
                    = verify_agent_api_key(agents, history, tok, t)

\* C30 witness: the ledger holds a row the sweep removes and a row whose key
\* verify accepts through the ledger
C30_Witness ==
    \E e1 \in history, e2 \in history :
        /\ e1.expires_at <= now
        /\ e2.expires_at > now
        /\ Verify(TokenOf(e2.old_key_hash)).status = 200
        /\ Verify(TokenOf(e2.old_key_hash)).lookups = 3

\* C31: whenever a rotation's unit of work stands before its commit, the
\* commit of a request that carries no new_expires_at leaves the agent's
\* row with api_key_expires_at absent.
C31_DefaultNeverExpires ==
    \A r \in Reqs :
        req[r].pc = "updated" =>
            \A row \in CommittedAgents(r, NULL) :
                row.id = req[r].agent_id => row.api_key_expires_at = NULL

\* C39: in every reachable state the ledger holds at most one unexpired
\* row per credential hash, and verify of no token ends in an internal
\* error.
C39_OneLiveRowPerHash ==
    /\ \A e1 \in history, e2 \in history :
          ( /\ e1.old_key_hash = e2.old_key_hash
            /\ e1.expires_at > now /\ e2.expires_at > now ) => e1 = e2
    /\ \A tok \in Tokens \cup {NoCredentials} : Verify(tok).status # 500

\* ------------------------------------------------------------- cache calls
\* A call to the remote store raises redis.RedisError when the store fails;
\* an exception leaves a try block unless an except clause names it.
RemoteError(ok) == IF ok THEN "" ELSE "RedisError"
Escapes(err, caught) == err # "" /\ err \notin caught

\* except (redis.RedisError, json.JSONDecodeError) of get
GetCaught == {"RedisError", "JSONDecodeError"}
\* except redis.RedisError of every other remote call
RedisCaughtBug == {}
RedisCaught == {"RedisError"}

\* DistributedCache.get on an instance with fields (mem, conn); ok says
\* whether the store answers
getLocalFirst(rem, mem, conn, k, ok) ==
    [raised |-> FALSE,
     value |-> IF MemGet(mem, k) # NULL THEN MemGet(mem, k)
               ELSE IF conn /\ ok /\ rem[k] # RedisNil THEN json_loads(rem[k])
               ELSE NULL]
getRemoteOnly(rem, mem, conn, k, ok) ==
    [raised |-> FALSE,
     value |-> IF conn /\ ok /\ rem[k] # RedisNil THEN json_loads(rem[k]) ELSE NULL]
get(rem, mem, conn, k, ok) ==
    LET err == IF conn THEN RemoteError(ok) ELSE "" IN
    [raised |-> Escapes(err, GetCaught),
     value |-> IF conn /\ err = "" /\ rem[k] # RedisNil
               THEN json_loads(rem[k])
               ELSE MemGet(mem, k)]

\* DistributedCache.set: setex when connected, then the mirror, then the trim
set(rem, mem, conn, k, v, ok) ==
    LET err == IF conn THEN RemoteError(ok) ELSE "" IN
    [raised |-> Escapes(err, RedisCaught),
     ret |-> conn /\ err = "",
     remote |-> IF conn /\ err = "" THEN [rem EXCEPT ![k] = json_dumps(v)] ELSE rem,
     memory |-> IF Escapes(err, RedisCaught) THEN mem ELSE MemTrim(MemPut(mem, k, v))]

\* DistributedCache.delete
delete(rem, mem, conn, k, ok) ==
    LET err == IF conn THEN RemoteError(ok) ELSE "" IN
    [raised |-> Escapes(err, RedisCaught),
     ret |-> TRUE,
     remote |-> IF conn /\ err = "" THEN [rem EXCEPT ![k] = RedisNil] ELSE rem,
     memory |-> IF Escapes(err, RedisCaught) THEN mem ELSE MemPop(mem, {k})]

\* glob patterns over cache keys: "agent:S:R", "agent:S:*" and "*"
Patterns == [subject : Subjects \cup {Wild}, source : Sources \cup {Wild}]
Matches(k, pat) ==
    /\ pat.subject \in {Wild, k.subject}
    /\ pat.source \in {Wild, k.source}

RemoteKeys(rem) == {k \in CacheKeys : rem[k] # RedisNil}
WithoutBug(rem, ks) == rem
Without(rem, ks) == [k \in CacheKeys |-> IF k \in ks THEN RedisNil ELSE rem[k]]

\* part: the keys on which the store's calls succeed during one operation;
\* the operation meets a RedisError when a key it needs is not among them
\* (all of CacheKeys: the store is healthy; none: it is down)
Parts == {ks \in SUBSET CacheKeys : Cardinality(ks) \in {0, 1, Cardinality(CacheKeys)}}
Failed(conn, need, part) ==
    IF conn /\ (part = {} \/ ~(need \subseteq part)) THEN "RedisError" ELSE ""

\* every key of _memory_cache was made by _make_key
StartsWithKeyPrefix(k) == TRUE

\* DistributedCache.invalidate_pattern
invalidate_pattern(rem, mem, conn, pat, part) ==
    LET found == {k \in RemoteKeys(rem) : Matches(k, pat)}
        err == Failed(conn, found, part)
        deleted == IF conn THEN found \cap part ELSE {}
        keys_to_remove == {k \in MemKeys(mem) : StartsWithKeyPrefix(k)}
    IN [raised |-> Escapes(err, RedisCaught),
        ret |-> Cardinality(deleted) + Cardinality(keys_to_remove),
        remote |-> Without(rem, deleted),
        memory |-> IF Escapes(err, RedisCaught) THEN mem ELSE MemPop(mem, keys_to_remove)]

\* DistributedCache.invalidate_all
invalidate_all(rem, mem, conn, part) ==
    invalidate_pattern(rem, mem, conn, [subject |-> Wild, source |-> Wild], part)

\* DistributedCache._invalidate_by_source
invalidate_by_source(rem, mem, conn, src, part) ==
    LET keys_to_delete == {k \in MemKeys(mem) : MemGet(mem, k) = src}
        rem1 == IF conn THEN Without(rem, keys_to_delete \cap part) ELSE rem
        scanned == {k \in RemoteKeys(rem1) : json_loads(rem1[k]) = src}
        deleted == IF conn THEN scanned \cap part ELSE {}
        err == Failed(conn, keys_to_delete \cup RemoteKeys(rem1), part)
    IN [raised |-> Escapes(err, RedisCaught),
        ret |-> Cardinality(keys_to_delete) + Cardinality(deleted),
        remote |-> Without(rem1, deleted),
        memory |-> MemPop(mem, keys_to_delete)]

\* DistributedCache._handle_invalidation
handle_invalidation(rem, mem, conn, ev, part) ==
    IF ev.agent_name # Wild /\ ev.config_source # Wild
    THEN invalidate_pattern(rem, mem, conn,
             [subject |-> ev.agent_name, source |-> ev.config_source], part)
    ELSE IF ev.agent_name # Wild
    THEN invalidate_pattern(rem, mem, conn,
             [subject |-> ev.agent_name, source |-> Wild], part)
    ELSE IF ev.config_source # Wild
    THEN invalidate_by_source(rem, mem, conn, ev.config_source, part)
    ELSE invalidate_pattern(rem, mem, conn, [subject |-> Wild, source |-> Wild], part)

\* AgentConfigCache.invalidate_by_source: the mirror by payload, then the
\* store by payload
ac_invalidate_by_source(rem, mem, conn, src, part) ==
    LET keys_to_remove == {k \in MemKeys(mem) : MemGet(mem, k) = src}
        scanned == {k \in RemoteKeys(rem) : json_loads(rem[k]) = src}
        deleted == IF conn THEN scanned \cap part ELSE {}
        err == Failed(conn, RemoteKeys(rem), part)
    IN [raised |-> Escapes(err, RedisCaught),
        ret |-> Cardinality(keys_to_remove) + Cardinality(deleted),
        remote |-> Without(rem, deleted),
        memory |-> MemPop(mem, keys_to_remove)]

\* AgentConfigCache.clear
ac_clear(rem, mem, conn, part) ==
    LET deleted == IF conn THEN RemoteKeys(rem) \cap part ELSE {}
        err == Failed(conn, RemoteKeys(rem), part)
    IN [raised |-> Escapes(err, RedisCaught),
        ret |-> 0,
        remote |-> Without(rem, deleted),
        memory |-> << >>]

\* ------------------------------------------------------------- cache actions
\* what an operation's result leaves in the store and in p's mirror
Apply(p, res) ==
    /\ remote' = res.remote
    /\ memory' = [memory EXCEPT ![p] = res.memory]

\* DistributedCache.connect: ping, then the listener task is started
Connect(p, ok) ==
    /\ ~connected[p]
    /\ IF ok
       THEN /\ connected' = [connected EXCEPT ![p] = TRUE]
            /\ listening' = [listening EXCEPT ![p] = TRUE]
       ELSE UNCHANGED <<connected, listening>>
    /\ UNCHANGED <<remote, memory, inbox>>
    /\ UNCHANGED <<vars, task, mod, loader, hook>>

CacheSet(p, k, v, ok) ==
    /\ connected[p] \/ ok
    /\ Apply(p, set(remote, memory[p], connected[p], k, v, ok))
    /\ UNCHANGED <<connected, listening, inbox>>
    /\ UNCHANGED <<vars, task, mod, loader, hook>>

CacheDelete(p, k, ok) ==
    /\ connected[p] \/ ok
    /\ Apply(p, delete(remote, memory[p], connected[p], k, ok))
    /\ UNCHANGED <<connected, listening, inbox>>
    /\ UNCHANGED <<vars, task, mod, loader, hook>>

InvalidateAll(p, part) ==
    /\ connected[p] \/ part = CacheKeys
    /\ Apply(p, invalidate_all(remote, memory[p], connected[p], part))
    /\ UNCHANGED <<connected, listening, inbox>>
    /\ UNCHANGED <<vars, task, mod, loader, hook>>

\* the listener of p reads message ev, published by some process, off the
\* channel and handles it
HandleInvalidation(p, ev, part) ==
    /\ listening[p]
    /\ Apply(p, handle_invalidation(remote, memory[p], connected[p], ev, part))
    /\ UNCHANGED <<connected, listening, inbox>>
    /\ UNCHANGED <<vars, task, mod, loader, hook>>

ACInvalidateBySource(p, src, part) ==
    /\ connected[p] \/ part = CacheKeys
    /\ Apply(p, ac_invalidate_by_source(remote, memory[p], connected[p], src, part))
    /\ UNCHANGED <<connected, listening, inbox>>
    /\ UNCHANGED <<vars, task, mod, loader, hook>>

ACClear(p, part) ==
    /\ connected[p] \/ part = CacheKeys
    /\ Apply(p, ac_clear(remote, memory[p], connected[p], part))
    /\ UNCHANGED <<connected, listening, inbox>>
    /\ UNCHANGED <<vars, task, mod, loader, hook>>

\* _listen_for_invalidations line 329: a RedisError ends the listener task
ListenerError(p) ==
    /\ listening[p]
    /\ listening' = [listening EXCEPT ![p] = FALSE]
    /\ inbox' = [inbox EXCEPT ![p] = << >>]
    /\ UNCHANGED <<remote, memory, connected>>
    /\ UNCHANGED <<vars, task, mod, loader, hook>>

\* another process's setex reaches the store
RemoteSet(k, v) ==
    /\ remote' = [remote EXCEPT ![k] = json_dumps(v)]
    /\ UNCHANGED <<memory, connected, listening, inbox>>
    /\ UNCHANGED <<vars, task, mod, loader, hook>>

\* the TTL given to setex (set line 186) runs out: the store drops the key;
\* no statement of the instance runs
expire(rem, k) == [rem EXCEPT ![k] = RedisNil]

RemoteExpire(k) ==
    /\ remote[k] # RedisNil
    /\ remote' = expire(remote, k)
    /\ UNCHANGED <<memory, connected, listening, inbox>>
    /\ UNCHANGED <<vars, task, mod, loader, hook>>

\* DistributedCache.publish_invalidation: the store hands the message to
\* every subscription, the publisher's own included
publish_invalidation(box, lst, conn, ev, ok) ==
    LET err == IF conn THEN RemoteError(ok) ELSE "" IN
    [raised |-> Escapes(err, RedisCaught),
     inbox |-> [q \in Procs |-> IF conn /\ err = "" /\ lst[q]
                                THEN Append(box[q], ev) ELSE box[q]]]

Publish(p, ev, ok) ==
    /\ \A q \in Procs : Len(inbox[q]) < MaxInbox
    /\ inbox' = publish_invalidation(inbox, listening, connected[p], ev, ok).inbox
    /\ UNCHANGED <<remote, memory, connected, listening>>
    /\ UNCHANGED <<vars, task, mod, loader, hook>>

\* _listen_for_invalidations lines 316-322: the next message is handled
ListenerStep(p, part) ==
    /\ listening[p]
    /\ inbox[p] # << >>
    /\ Apply(p, handle_invalidation(remote, memory[p], connected[p], Head(inbox[p]), part))
    /\ inbox' = [inbox EXCEPT ![p] = Tail(inbox[p])]
    /\ UNCHANGED <<connected, listening>>
    /\ UNCHANGED <<vars, task, mod, loader, hook>>

\* One instance, with the store's failures; the other processes are seen
\* through the store (RemoteSet) and the channel (HandleInvalidation).
Local == {1}

CacheNext ==
    \/ \E p \in Local, ok \in BOOLEAN : Connect(p, ok)
    \/ \E p \in Local, k \in CacheKeys, v \in Payloads, ok \in BOOLEAN : CacheSet(p, k, v, ok)
    \/ \E p \in Local, k \in CacheKeys, ok \in BOOLEAN : CacheDelete(p, k, ok)
    \/ \E p \in Local, part \in Parts : InvalidateAll(p, part)
    \/ \E p \in Local, ev \in Events, part \in Parts : HandleInvalidation(p, ev, part)
    \/ \E p \in Local, src \in Sources, part \in Parts : ACInvalidateBySource(p, src, part)
    \/ \E p \in Local, part \in Parts : ACClear(p, part)
    \/ \E p \in Local : ListenerError(p)
    \/ \E k \in CacheKeys, v \in Payloads : RemoteSet(k, v)
    \/ \E k \in CacheKeys : RemoteExpire(k)

CacheSpec == Init /\ [][CacheNext]_cvars

\* ------------------------------------------------------------- cache properties
GetNow(p, k, ok) == get(remote, memory[p], connected[p], k, ok)

\* C13: in every reachable state, with the store unavailable (the instance
\* never connected, or connected with every call failing), a set of (k, v)
\* does not raise and a get of k right after it does not raise and returns
\* v, whatever the mirror held, a full mirror included.
C13_SetThenGetUnavailable ==
    \A p \in Procs, k \in CacheKeys, v \in Payloads :
        LET s == set(remote, memory[p], connected[p], k, v, FALSE)
            g == get(s.remote, s.memory, connected[p], k, FALSE)
        IN /\ ~s.raised
           /\ ~g.raised
           /\ g.value = v

\* C13 witness: a connected instance whose full mirror holds, as its newest
\* entry, a value the store never got
C13_Witness ==
    \E p \in Procs :
        /\ connected[p]
        /\ Len(memory[p]) = MemoryLimit
        /\ remote[memory[p][MemoryLimit].key]
               # json_dumps(memory[p][MemoryLimit].value)

\* C32: in every reachable state, for every set of (k, v), with the store
\* answering or not: when a get of k right after it returns v the set
\* returned True, and when the set returned False it stored nothing, in the
\* store or in the mirror.
C32_SetReportsStored ==
    \A p \in Procs, k \in CacheKeys, v \in Payloads, ok \in BOOLEAN :
        LET s == set(remote, memory[p], connected[p], k, v, ok)
            g == get(s.remote, s.memory, connected[p], k, ok)
        IN /\ (~s.raised /\ ~g.raised /\ g.value = v) => s.ret
           /\ ~s.ret => (s.remote = remote /\ s.memory = memory[p])

\* the distinct cache keys that matched pat and that the operation with
\* result res removed, from the store or from the mirror of p
RemovedKeys(p, pat, res) ==
    {k \in CacheKeys :
        /\ Matches(k, pat)
        /\ \/ k \in RemoteKeys(remote) \ RemoteKeys(res.remote)
           \/ k \in MemKeys(memory[p]) \ MemKeys(res.memory)}

\* C33: in every reachable state, for every pattern and with the store
\* answering or not, invalidate_pattern returns the number of distinct keys
\* that matched the pattern and were removed, and invalidate_all returns the
\* number of distinct keys removed; a key held in the store and in the
\* mirror counts once.
C33_CountsDistinctKeys ==
    \A p \in Procs, part \in Parts :
        /\ \A pat \in Patterns :
              LET res == invalidate_pattern(remote, memory[p], connected[p], pat, part)
              IN res.ret = Cardinality(RemovedKeys(p, pat, res))
        /\ LET res == invalidate_all(remote, memory[p], connected[p], part)
           IN res.ret = Cardinality(RemovedKeys(p, [subject |-> Wild, source |-> Wild], res))

\* the two modes of an operation: the store answers every call, or none
Healthy == [part |-> CacheKeys, ok |-> TRUE]
Fallback == [part |-> {}, ok |-> FALSE]

\* what get of k returns after the listener of p has handled ev in mode md
GetAfterEvent(p, ev, md, k) ==
    LET s == handle_invalidation(remote, memory[p], connected[p], ev, md.part)
    IN get(s.remote, s.memory, connected[p], k, md.ok)

\* C14: when the listener handles an event that names subject S, every entry
\* of another subject is returned by get with the same value afterwards, and
\* with S and a source R every entry but agent:S:R is; with the store
\* answering and in local fallback alike.
C14_EvictsOnlySubject ==
    \A p \in Procs, ev \in Events, md \in {Healthy, Fallback}, k \in CacheKeys :
        ( /\ listening[p]
          /\ ev.agent_name # Wild
          /\ \/ k.subject # ev.agent_name
             \/ ev.config_source \notin {Wild, k.source} )
        => GetAfterEvent(p, ev, md, k) = GetNow(p, k, md.ok)

\* the keys whose entry, in the mirror of p or in the store p is connected
\* to, carries config_source src
MatchingSource(p, src) ==
    {k \in CacheKeys : \/ MemGet(memory[p], k) = src
                       \/ connected[p] /\ remote[k] = json_dumps(src)}

\* src-only invalidation as the listener of a DistributedCache runs it
SourceEvent(src) == [agent_name |-> Wild, config_source |-> src]

\* after result s of a source-only invalidation for src in mode md: get
\* returns no payload of src, returns every other payload it returned
\* before, and the count covers the matching keys
SourceInvalidated(p, src, md, s) ==
    /\ \A k \in CacheKeys :
          LET before == GetNow(p, k, md.ok)
              after == get(s.remote, s.memory, connected[p], k, md.ok)
          IN /\ after.value # src
             /\ before.value \notin {src, NULL} => after.value = before.value
    /\ md = Healthy => s.ret >= Cardinality(MatchingSource(p, src))

\* C15: a source-only invalidation for source R (DistributedCache's listener
\* handling {config_source: R}, AgentConfigCache.invalidate_by_source(R))
\* removes every entry whose payload has config_source R, leaves every entry
\* with another or no config_source retrievable with its value, and returns
\* at least the number of matching entries.
C15_SourceInvalidation ==
    \A p \in Procs, src \in Sources, md \in {Healthy, Fallback} :
        /\ listening[p] =>
              SourceInvalidated(p, src, md,
                  handle_invalidation(remote, memory[p], connected[p],
                                      SourceEvent(src), md.part))
        /\ SourceInvalidated(p, src, md,
               ac_invalidate_by_source(remote, memory[p], connected[p], src, md.part))

\* get of every key returns None, whether or not the store answers
AllAbsent(p, s) ==
    \A k \in CacheKeys, ok \in BOOLEAN :
        get(s.remote, s.memory, connected[p], k, ok).value = NULL

C17_EventIdempotent ==
    \A p \in Procs, ev \in Events, part \in SUBSET CacheKeys :
        listening[p] =>
            LET s1 == handle_invalidation(remote, memory[p], connected[p], ev, part)
                s2 == handle_invalidation(s1.remote, s1.memory, connected[p], ev, part)
            IN /\ s2.remote = s1.remote
               /\ s2.memory = s1.memory
               /\ ~s1.raised /\ ~s2.raised

\* C17 witness: the listener runs while mirror and store both hold entries,
\* of two subjects and of two config sources
C17_Witness ==
    \E p \in Procs :
        /\ listening[p]
        /\ Len(memory[p]) = 2
        /\ memory[p][1].key.subject # memory[p][2].key.subject
        /\ memory[p][1].value # memory[p][2].value
        /\ Cardinality(RemoteKeys(remote)) >= 2

\* C19: get of k returns the store's value when the instance is connected,
\* the store answers and holds k; otherwise (store error, store miss, not
\* connected) it returns the mirror's value, None when the mirror has no
\* entry; it never raises.
C19_GetRemoteFirst ==
    \A p \in Procs, k \in CacheKeys, ok \in BOOLEAN :
        LET g == GetNow(p, k, ok) IN
        /\ ~g.raised
        /\ IF connected[p] /\ ok /\ remote[k] # RedisNil
           THEN g.value = json_loads(remote[k])
           ELSE g.value = MemGet(memory[p], k)

\* C19 witness: a connected instance whose mirror and store hold different
\* values for one key, and whose mirror holds a key the store lacks
C19_Witness ==
    \E p \in Procs :
        /\ connected[p]
        /\ \E k \in MemKeys(memory[p]) :
              remote[k] \notin {RedisNil, json_dumps(MemGet(memory[p], k))}
        /\ \E k \in MemKeys(memory[p]) : remote[k] = RedisNil

\* C20: no call lets a store error out, whichever calls the store fails:
\* get, set, delete, invalidate_pattern, invalidate_all, publish_invalidation
\* and the listener's handling of a message return normally, and the mirror
\* they leave is the one the same call leaves on an instance without store.
C20_RemoteErrorsSwallowed ==
    \A p \in Procs :
        LET mem == memory[p]
            conn == connected[p]
        IN
        /\ \A k \in CacheKeys :
              /\ ~get(remote, mem, conn, k, FALSE).raised
              /\ get(remote, mem, conn, k, FALSE).value
                     = get(remote, mem, FALSE, k, FALSE).value
              /\ \A v \in Payloads :
                    /\ ~set(remote, mem, conn, k, v, FALSE).raised
                    /\ set(remote, mem, conn, k, v, FALSE).memory
                           = set(remote, mem, FALSE, k, v, FALSE).memory
              /\ ~delete(remote, mem, conn, k, FALSE).raised
              /\ delete(remote, mem, conn, k, FALSE).memory
                     = delete(remote, mem, FALSE, k, FALSE).memory
        /\ \A part \in Parts :
              /\ \A pat \in Patterns :
                    LET res == invalidate_pattern(remote, mem, conn, pat, part) IN
                    /\ ~res.raised
                    /\ res.memory = invalidate_pattern(remote, mem, FALSE, pat, part).memory
              /\ LET res == invalidate_all(remote, mem, conn, part) IN
                    /\ ~res.raised
                    /\ res.memory = invalidate_all(remote, mem, FALSE, part).memory
              /\ \A ev \in Events :
                    LET res == handle_invalidation(remote, mem, conn, ev, part) IN
                    /\ ~res.raised
                    /\ res.memory = handle_invalidation(remote, mem, FALSE, ev, part).memory
        /\ \A ev \in Events :
              ~publish_invalidation(inbox, listening, conn, ev, FALSE).raised

\* C20 witness: a connected instance with entries in mirror and store
C20_Witness ==
    \E p \in Procs :
        /\ connected[p] /\ listening[p]
        /\ memory[p] # << >>
        /\ \E k \in RemoteKeys(remote) : k \in MemKeys(memory[p])
        /\ \E k \in RemoteKeys(remote) : k \notin MemKeys(memory[p])

\* C25: in every reachable state the mirror of every instance holds at most
\* MemoryLimit entries; a set that makes it hold more drops a prefix of the
\* oldest-inserted entries and nothing else, a set that does not drops
\* nothing, and in both cases the entry written is in the mirror afterwards.
C25_MirrorBounded ==
    \A p \in Procs :
        /\ Len(memory[p]) <= MemoryLimit
        /\ \A k \in CacheKeys, v \in Payloads, ok \in BOOLEAN :
              LET put == MemPut(memory[p], k, v)
                  s == set(remote, memory[p], connected[p], k, v, ok)
              IN /\ ~s.raised
                 /\ Len(s.memory) <= MemoryLimit
                 /\ \E n \in 0..Len(put) :
                       /\ s.memory = SubSeq(put, n + 1, Len(put))
                       /\ (n > 0) <=> (Len(put) > MemoryLimit)
                 /\ MemGet(s.memory, k) = v

\* C25 witness: a full mirror, and a key outside it that the store holds: a
\* set of that key overflows the mirror
C25_Witness ==
    \E p \in Procs, k \in CacheKeys :
        /\ Len(memory[p]) = MemoryLimit
        /\ k \notin MemKeys(memory[p])
        /\ remote[k] # RedisNil
        /\ \A i \in 1..Len(memory[p]) : remote[memory[p][i].key] # RedisNil

\* C29: the store dropping a key at the end of its TTL removes nothing from a
\* mirror: in every reachable state, for every key the mirror of p holds, a
\* get of that key after the store has dropped it does not raise and
\* returns the mirror's value, whether the store answers or not.
C29_MirrorOutlivesTTL ==
    \A p \in Procs, k \in CacheKeys, ok \in BOOLEAN :
        MemGet(memory[p], k) # NULL =>
            LET g == get(expire(remote, k), memory[p], connected[p], k, ok)
            IN ~g.raised /\ g.value = MemGet(memory[p], k)

\* C29 witness: a connected instance whose mirror holds a key that the store
\* no longer has, beside one the store still has
C29_Witness ==
    \E p \in Procs, k \in CacheKeys, k2 \in CacheKeys :
        /\ connected[p]
        /\ MemGet(memory[p], k) # NULL /\ remote[k] = RedisNil
        /\ MemGet(memory[p], k2) # NULL /\ remote[k2] # RedisNil

\* ------------------------------------------------------------- the channel
\* All processes on a store that answers: once every process is connected
\* and its listener subscribed, they cache payloads, each carrying the source
\* its key names, and publish.  The event loop runs a listener whose
\* subscription has a message.
AllSubscribed == \A q \in Procs : connected[q] /\ listening[q]

BusNext ==
    \/ \E p \in Procs : Connect(p, TRUE)
    \/ \E p \in Procs, k \in CacheKeys : AllSubscribed /\ CacheSet(p, k, k.source, TRUE)
    \/ \E p \in Procs, ev \in Events : AllSubscribed /\ Publish(p, ev, TRUE)
    \/ \E p \in Procs : ListenerStep(p, CacheKeys)

BusSpec ==
    /\ Init
    /\ [][BusNext]_cvars
    /\ \A p \in Procs : WF_cvars(ListenerStep(p, CacheKeys))

\* entry e of a mirror falls under event ev
EventMatches(ev, e) ==
    IF ev.agent_name # Wild
    THEN Matches(e.key, [subject |-> ev.agent_name, source |-> ev.config_source])
    ELSE ev.config_source \in {Wild, e.value}

Evicted(p, ev) ==
    \A i \in 1..Len(memory[p]) : ~EventMatches(ev, memory[p][i])

Handling == {"pattern", "source", "scan"}

\* the keys whose entry, in the store or in mirror mem, falls under ev
Remaining(rem, mem, ev) ==
    {k \in CacheKeys :
        \/ k \in MemKeys(mem) /\ EventMatches(ev, Entry(k, MemGet(mem, k)))
        \/ rem[k] # RedisNil /\ EventMatches(ev, Entry(k, json_loads(rem[k])))}

\* the keys of a mirror's entries, in the mirror's order
KeysInOrder(m) == [i \in 1..Len(m) |-> m[i].key]

\* _listen_for_invalidations lines 316-320 and _handle_invalidation: the
\* message is read and dispatched, up to the first await of its handling.
\* A message with config_source only: _invalidate_by_source lines 372-385,
\* the mirror is searched, the first entry found is deleted and the store's
\* delete of its key awaited.  Any other message: invalidate_pattern lines
\* 235-242, the store's scan is awaited.
ListenerTake(p) ==
    /\ listening[p] /\ task[p].pc = "idle" /\ task[p].closing = "no"
    /\ inbox[p] # << >>
    /\ LET ev == Head(inbox[p])
           t0 == [IdleTask EXCEPT !.ev = ev,
                     !.owed = {k \in MemKeys(memory[p]) :
                                   EventMatches(ev, Entry(k, MemGet(memory[p], k)))}]
           keys == KeysInOrder(SelectSeq(memory[p],
                                         LAMBDA e : e.value = ev.config_source))
       IN IF ev.agent_name = Wild /\ ev.config_source # Wild
          THEN IF keys = << >>
               THEN /\ task' = [task EXCEPT ![p] = [t0 EXCEPT !.pc = "scan",
                           !.scan = {k \in RemoteKeys(remote) :
                                        json_loads(remote[k]) = ev.config_source}]]
                    /\ UNCHANGED memory
               ELSE /\ task' = [task EXCEPT ![p] = [t0 EXCEPT !.pc = "source",
                           !.keys_to_delete = keys, !.applied = TRUE]]
                    /\ memory' = [memory EXCEPT ![p] = MemPop(@, {keys[1]})]
          ELSE /\ task' = [task EXCEPT ![p] = [t0 EXCEPT !.pc = "pattern",
                      !.scan = {k \in RemoteKeys(remote) :
                                   Matches(k, [subject |-> ev.agent_name,
                                               source |-> ev.config_source])}]]
               /\ UNCHANGED memory
    /\ inbox' = [inbox EXCEPT ![p] = Tail(@)]
    /\ UNCHANGED <<remote, connected, listening, mod>>
    /\ UNCHANGED <<vars, loader, hook>>

\* invalidate_pattern lines 240-253: the store's delete of one scanned key;
\* after the last one, with no await in between, every key of the mirror
\* is deleted and the handling is complete
PatternStep(p) ==
    /\ task[p].pc = "pattern"
    /\ \E ks \in SUBSET task[p].scan :
          /\ Cardinality(ks) = IF task[p].scan = {} THEN 0 ELSE 1
          /\ remote' = Without(remote, ks)
          /\ IF task[p].scan \ ks = {}
             THEN /\ memory' = [memory EXCEPT ![p] =
                         MemPop(@, {j \in MemKeys(@) : StartsWithKeyPrefix(j)})]
                  /\ task' = [task EXCEPT ![p] = IdleTask]
             ELSE /\ task' = [task EXCEPT ![p].scan = @ \ ks,
                         ![p].applied = @ \/ (ks \cap RemoteKeys(remote) # {})]
                  /\ UNCHANGED memory
    /\ UNCHANGED <<connected, listening, inbox, mod>>
    /\ UNCHANGED <<vars, loader, hook>>

\* _invalidate_by_source lines 380-388: the store's delete of the head of
\* keys_to_delete returns; the next key's mirror entry is deleted with
\* del, a KeyError when the mirror no longer holds it, which
\* _listen_for_invalidations line 321 catches; after the last key the
\* store's scan is awaited
SourceStep(p) ==
    /\ task[p].pc = "source"
    /\ LET rest == Tail(task[p].keys_to_delete)
           rem1 == Without(remote, {Head(task[p].keys_to_delete)})
       IN /\ remote' = rem1
          /\ IF rest = << >>
             THEN /\ task' = [task EXCEPT ![p].pc = "scan",
                         ![p].keys_to_delete = << >>,
                         ![p].scan = {k \in RemoteKeys(rem1) :
                                         json_loads(rem1[k]) = task[p].ev.config_source}]
                  /\ UNCHANGED memory
             ELSE IF Head(rest) \notin MemKeys(memory[p])
             THEN /\ task' = [task EXCEPT ![p] = [IdleTask EXCEPT !.raised = "KeyError"]]
                  /\ UNCHANGED memory
             ELSE /\ task' = [task EXCEPT ![p].keys_to_delete = rest]
                  /\ memory' = [memory EXCEPT ![p] = MemPop(@, {Head(rest)})]
    /\ UNCHANGED <<connected, listening, inbox, mod>>
    /\ UNCHANGED <<vars, loader, hook>>

\* _invalidate_by_source lines 391-406: one scanned key is read from the
\* store and deleted when its payload carries the source
ScanStep(p) ==
    /\ task[p].pc = "scan"
    /\ \E ks \in SUBSET task[p].scan :
          /\ Cardinality(ks) = IF task[p].scan = {} THEN 0 ELSE 1
          /\ remote' = Without(remote,
                 {k \in ks : remote[k] = json_dumps(task[p].ev.config_source)})
          /\ IF task[p].scan \ ks = {}
             THEN task' = [task EXCEPT ![p] = IdleTask]
             ELSE task' = [task EXCEPT ![p].scan = @ \ ks,
                      ![p].applied = @ \/ (remote' # remote)]
    /\ UNCHANGED <<memory, connected, listening, inbox, mod>>
    /\ UNCHANGED <<vars, loader, hook>>

\* a request handler's set on the process of the listener
HandlerSet(p, k) ==
    /\ Apply(p, set(remote, memory[p], connected[p], k, k.source, TRUE))
    /\ task' = [task EXCEPT ![p].owed = @ \ {k}]
    /\ UNCHANGED <<connected, listening, inbox, mod>>
    /\ UNCHANGED <<vars, loader, hook>>

\* disconnect lines 111-116: the listener task is cancelled and awaited.
\* CancelledError is raised in the task at the await it stands at, leaves
\* the handling through every except clause on its way, and reaches
\* except asyncio.CancelledError (line 324).
DisconnectBegin(p) ==
    /\ connected[p] /\ task[p].closing = "no"
    /\ IF listening[p]
       THEN task' = [task EXCEPT ![p] = [task[p] EXCEPT
                        !.pc = "unsub",
                        !.cut = task[p].pc \in Handling,
                        !.left = IF task[p].pc \in Handling
                                 THEN Remaining(remote, memory[p], task[p].ev)
                                 ELSE {},
                        !.closing = "joining"]]
       ELSE task' = [task EXCEPT ![p].closing = "joined"]
    /\ UNCHANGED <<remote, memory, connected, listening, inbox, mod>>
    /\ UNCHANGED <<vars, loader, hook>>

\* _listen_for_invalidations lines 326-327: unsubscribe, then the
\* CancelledError is raised again, which disconnect line 115 catches; a
\* RedisError of unsubscribe leaves the task instead, and the await of the
\* task at disconnect line 114 raises it
ListenerUnsubscribe(p, ok) ==
    /\ task[p].pc = "unsub"
    /\ task' = [task EXCEPT ![p].pc = "ended",
                            ![p].unsubscribed = ok,
                            ![p].closing = IF Escapes(RemoteError(ok), {"CancelledError"})
                                           THEN "raised" ELSE "joined"]
    /\ listening' = [listening EXCEPT ![p] = FALSE]
    /\ inbox' = [inbox EXCEPT ![p] = << >>]
    /\ UNCHANGED <<remote, memory, connected, mod>>
    /\ UNCHANGED <<vars, loader, hook>>

\* disconnect lines 118-127: pubsub and pool are closed, _redis = None,
\* _connected = False
DisconnectFinish(p) ==
    /\ task[p].closing = "joined"
    /\ connected' = [connected EXCEPT ![p] = FALSE]
    /\ task' = [task EXCEPT ![p].closing = "closed"]
    /\ UNCHANGED <<remote, memory, listening, inbox, mod>>
    /\ UNCHANGED <<vars, loader, hook>>

\* the instance is connected and no disconnect() of it has begun
Serving(p) == connected[p] /\ task[p].closing = "no"

TaskNext ==
    \/ \E p \in Local : task[p].closing = "no" /\ Connect(p, TRUE)
    \/ \E p \in Local, k \in CacheKeys : Serving(p) /\ HandlerSet(p, k)
    \/ \E p \in Local, k \in CacheKeys : Serving(p) /\ CacheDelete(p, k, TRUE)
    \/ \E p \in Local, ev \in Events : Serving(p) /\ Publish(p, ev, TRUE)
    \/ \E p \in Local : ListenerTake(p)
    \/ \E p \in Local : PatternStep(p)
    \/ \E p \in Local : SourceStep(p)
    \/ \E p \in Local : ScanStep(p)
    \/ \E p \in Local : DisconnectBegin(p)
    \/ \E p \in Local, ok \in BOOLEAN : ListenerUnsubscribe(p, ok)
    \/ \E p \in Local : DisconnectFinish(p)

TaskSpec == Init /\ [][TaskNext]_cvars

\* C21: in every reachable state, a handling that the cancellation of the
\* listener cut short had either removed no entry yet, or left no entry
\* that falls under its message, in the store or in the mirror.
C21_NoPartialInvalidation ==
    \A p \in Procs :
        task[p].cut => (~task[p].applied \/ task[p].left = {})

\* C22: no handling of a message by the listener raises, no set or delete
\* of a request handler raises, and when a handling ends every mirror key
\* that fell under the message when the handling began, and was not set
\* during it, is out of the mirror.
C22_MirrorSafe ==
    [][\A p \in Procs :
          /\ task'[p].raised = ""
          /\ \A k \in CacheKeys :
                /\ ~set(remote, memory[p], connected[p], k, k.source, TRUE).raised
                /\ ~delete(remote, memory[p], connected[p], k, TRUE).raised
          /\ (task[p].pc \in Handling /\ task'[p].pc = "idle") =>
                \A k \in task[p].owed : k \notin MemKeys(memory'[p])
      ]_cvars

\* C23: once disconnect() of a connected instance has returned or raised,
\* the listener task has ended and has unsubscribed, _connected is False,
\* and get, set and delete do not raise, get returning the mirror's value
\* and set and delete leaving the store as it is.
C23_DisconnectCleans ==
    \A p \in Procs :
        task[p].closing \in {"closed", "raised"} =>
            /\ ~listening[p] /\ task[p].pc = "ended"
            /\ task[p].unsubscribed
            /\ ~connected[p]
            /\ \A k \in CacheKeys, ok \in BOOLEAN :
                  LET g == get(remote, memory[p], connected[p], k, ok)
                      s == set(remote, memory[p], connected[p], k, k.source, ok)
                      d == delete(remote, memory[p], connected[p], k, ok)
                  IN /\ ~g.raised /\ g.value = MemGet(memory[p], k)
                     /\ ~s.raised /\ s.remote = remote
                     /\ ~d.raised /\ d.remote = remote

\* ------------------------------------------------------------- get_cache / close_cache
\* The coroutines of one process that call get_cache() and close_cache(),
\* taken one await at a time, on a store that answers or not.
Call(op, pc, i, saw, ret) == [op |-> op, pc |-> pc, inst |-> i, saw |-> saw, ret |-> ret]

\* get_cache lines 446-448 and connect lines 74-94: _cache is None, so an
\* instance is made and assigned, its pool and client are made and the
\* ping is awaited; or get_cache line 450: _cache is returned
GetCacheBegin(c) ==
    /\ mod.call[c].pc = "idle"
    /\ IF mod.cache = NULL
       THEN /\ mod.made < NumInsts
            /\ mod' = [mod EXCEPT !.cache = mod.made + 1,
                                  !.made = mod.made + 1,
                                  !.redis[mod.made + 1] = TRUE,
                                  !.call[c] = Call("get", "ping", mod.made + 1,
                                                   mod.made + 1, NULL)]
       ELSE mod' = [mod EXCEPT !.call[c] = Call("get", "done", mod.cache,
                                                mod.cache, mod.cache)]
    /\ UNCHANGED <<vars, remote, memory, connected, listening, inbox, task, loader, hook>>

\* connect lines 94-105, then get_cache line 450: the ping returns,
\* _connected is set and the listener task created, or the ping's error is
\* caught; get_cache returns what _cache holds now
GetCachePing(c, ok) ==
    /\ mod.call[c].pc = "ping"
    /\ LET i == mod.call[c].inst IN
       mod' = [mod EXCEPT !.connected[i] = ok,
                          !.listener[i] = IF ok THEN "created" ELSE @,
                          !.call[c] = Call("get", "done", i, i, mod.cache)]
    /\ UNCHANGED <<vars, remote, memory, connected, listening, inbox, task, loader, hook>>

\* _listen_for_invalidations lines 309-314: the task runs for the first
\* time; it returns at once on an instance that is not connected
ListenerStart(i) ==
    /\ mod.listener[i] = "created"
    /\ mod' = [mod EXCEPT !.listener[i] =
                  IF mod.connected[i] /\ mod.redis[i] THEN "live" ELSE "ended"]
    /\ UNCHANGED <<vars, remote, memory, connected, listening, inbox, task, loader, hook>>

\* close_cache lines 457-458 and disconnect lines 111-114: the listener
\* task of _cache, if there is one, is cancelled and awaited (a task that
\* never ran ends without running); with no task the pool's disconnect is
\* awaited, and with no pool either disconnect returns and _cache = None
CloseBegin(c) ==
    /\ mod.call[c].pc = "idle"
    /\ IF mod.cache = NULL
       THEN mod' = [mod EXCEPT !.call[c] = Call("close", "done", NULL, NULL, NULL)]
       ELSE LET i == mod.cache IN
            IF mod.listener[i] # "none"
            THEN mod' = [mod EXCEPT
                     !.listener[i] = IF @ = "created" THEN "ended"
                                     ELSE IF @ = "live" THEN "cancelled" ELSE @,
                     !.call[c] = Call("close", "join", i, i, NULL)]
            ELSE IF mod.redis[i]
            THEN mod' = [mod EXCEPT !.call[c] = Call("close", "pool", i, i, NULL)]
            ELSE mod' = [mod EXCEPT !.cache = NULL, !.connected[i] = FALSE,
                                    !.call[c] = Call("close", "done", i, i, NULL)]
    /\ UNCHANGED <<vars, remote, memory, connected, listening, inbox, task, loader, hook>>

\* _listen_for_invalidations lines 324-328: the cancelled task unsubscribes
\* and ends
ListenerEnd(i) ==
    /\ mod.listener[i] = "cancelled"
    /\ mod' = [mod EXCEPT !.listener[i] = "ended"]
    /\ UNCHANGED <<vars, remote, memory, connected, listening, inbox, task, loader, hook>>

\* disconnect lines 114-119: the awaited task has ended; the pubsub's close
\* is awaited
CloseJoin(c) ==
    /\ mod.call[c].pc = "join"
    /\ mod.listener[mod.call[c].inst] = "ended"
    /\ mod' = [mod EXCEPT !.call[c].pc = "pool"]
    /\ UNCHANGED <<vars, remote, memory, connected, listening, inbox, task, loader, hook>>

\* disconnect lines 122-127 and close_cache line 459: the pool is
\* disconnected, _redis = None, _connected = False, and _cache = None;
\* drops says whether a listener that subscribed since loses its connection
ClosePool(c, drops) ==
    /\ mod.call[c].pc = "pool"
    /\ LET i == mod.call[c].inst IN
       mod' = [mod EXCEPT !.cache = NULL,
                          !.redis[i] = FALSE,
                          !.connected[i] = FALSE,
                          !.listener[i] = IF drops /\ @ = "live" THEN "ended" ELSE @,
                          !.call[c].pc = "done"]
    /\ UNCHANGED <<vars, remote, memory, connected, listening, inbox, task, loader, hook>>

\* the caller has its result and may call again
Return(c) ==
    /\ mod.call[c].pc = "done"
    /\ mod' = [mod EXCEPT !.call[c] = IdleCall]
    /\ UNCHANGED <<vars, remote, memory, connected, listening, inbox, task, loader, hook>>

ModNext ==
    \/ \E c \in Callers : GetCacheBegin(c)
    \/ \E c \in Callers, ok \in BOOLEAN : GetCachePing(c, ok)
    \/ \E i \in Insts : ListenerStart(i)
    \/ \E c \in Callers : CloseBegin(c)
    \/ \E i \in Insts : ListenerEnd(i)
    \/ \E c \in Callers : CloseJoin(c)
    \/ \E c \in Callers, drops \in BOOLEAN : ClosePool(c, drops)
    \/ \E c \in Callers : Return(c)

ModSpec == Init /\ [][ModNext]_cvars

\* the instances whose listener task has subscribed and has not ended
LiveListeners == {i \in Insts : mod.listener[i] \in {"live", "cancelled"}}

\* C24: in every reachable state at most one listener task is live, and
\* two get_cache() calls that found the same instance in _cache, or made
\* it, have returned the same value.
C24_SingleListener ==
    /\ Cardinality(LiveListeners) <= 1
    /\ \A c1 \in Callers, c2 \in Callers :
          ( /\ mod.call[c1].op = "get" /\ mod.call[c1].pc = "done"
            /\ mod.call[c2].op = "get" /\ mod.call[c2].pc = "done"
            /\ mod.call[c1].saw = mod.call[c2].saw )
          => mod.call[c1].ret = mod.call[c2].ret

\* the connect() of instance i is in flight: its ping is awaited
Connecting(i) ==
    \E c \in Callers : mod.call[c].pc = "ping" /\ mod.call[c].inst = i

\* C40: in every reachable state, no get_cache() call has returned an
\* instance whose connect() is still in flight.
C40_ReturnedInstanceConnected ==
    \A c \in Callers :
        ( /\ mod.call[c].op = "get" /\ mod.call[c].pc = "done"
          /\ mod.call[c].ret # NULL )
        => ~Connecting(mod.call[c].ret)

\* ------------------------------------------------------------- the webhook
\* POST /webhooks/config-invalidation on process p: webhook_data.agent_names
\* (or the names extracted from changed_files) as the list names, and
\* webhook_data.repository as repo
AgentNameLists == {<< >>} \cup {<<n>> : n \in Subjects}

\* lines 638-640: cache.delete("agent:{name}:{repo}") for each name
RECURSIVE DeleteEach(_, _, _, _, _, _)
DeleteEach(rem, mem, conn, names, repo, ok) ==
    IF names = << >> THEN [remote |-> rem, memory |-> mem]
    ELSE LET d == delete(rem, mem, conn, [subject |-> Head(names), source |-> repo], ok)
         IN DeleteEach(d.remote, d.memory, conn, Tail(names), repo, ok)

\* lines 643-648: one message per name
RECURSIVE PublishEach(_, _, _, _, _, _)
PublishEach(box, lst, conn, names, repo, ok) ==
    IF names = << >> THEN box
    ELSE PublishEach(
             publish_invalidation(box, lst, conn,
                 [agent_name |-> Head(names), config_source |-> repo], ok).inbox,
             lst, conn, Tail(names), repo, ok)

\* config_cache_invalidation lines 625-654, without the git pull
config_cache_invalidation(rem, mem, box, lst, conn, names, repo, ok) ==
    LET d == DeleteEach(rem, mem, conn, names, repo, ok) IN
    [remote |-> d.remote,
     memory |-> d.memory,
     inbox |-> IF names # << >>
               THEN PublishEach(box, lst, conn, names, repo, ok)
               ELSE publish_invalidation(box, lst, conn, SourceEvent(repo), ok).inbox]

Webhook(p, names, repo, ok) ==
    /\ connected[p] \/ ok
    /\ \A q \in Procs : Len(inbox[q]) + Len(names) <= MaxInbox
    /\ \A q \in Procs : Len(inbox[q]) < MaxInbox
    /\ LET h == config_cache_invalidation(remote, memory[p], inbox, listening,
                                          connected[p], names, repo, ok)
       IN /\ Apply(p, h)
          /\ inbox' = h.inbox
    /\ UNCHANGED <<connected, listening>>
    /\ UNCHANGED <<vars, task, mod, loader, hook>>

\* One hub process that serves the webhook, with the store's failures
HookNext ==
    \/ \E p \in Local, ok \in BOOLEAN : Connect(p, ok)
    \/ \E p \in Local, k \in CacheKeys, v \in Payloads, ok \in BOOLEAN : CacheSet(p, k, v, ok)
    \/ \E p \in Local, names \in AgentNameLists, repo \in Sources, ok \in BOOLEAN :
           Webhook(p, names, repo, ok)
    \/ \E p \in Local, part \in Parts : ListenerStep(p, part)
    \/ \E p \in Local : ListenerError(p)
    \/ \E k \in CacheKeys, v \in Payloads : RemoteSet(k, v)

HookSpec == Init /\ [][HookNext]_cvars

\* the store and the mirror of p once the handler has returned with result h
\* and the listener of p has handled, in mode md, what the handler's
\* messages left unread in its subscription
RECURSIVE AfterListener(_, _, _, _, _)
AfterListener(rem, mem, conn, unread, md) ==
    IF unread = << >> THEN [remote |-> rem, memory |-> mem]
    ELSE LET s == handle_invalidation(rem, mem, conn, Head(unread), md.part)
         IN AfterListener(s.remote, s.memory, conn, Tail(unread), md)

\* C34: in every reachable state with no message unread, after the webhook
\* handler has processed a notification for repository R with no agent
\* names and the listener has handled what the handler's publish delivered
\* to it, get returns a payload of R for no key, with the store answering
\* and with the store unreachable.
C34_WebhookInvalidatesRepo ==
    \A p \in Local, repo \in Sources, md \in {Healthy, Fallback} :
        inbox[p] = << >> =>
            LET h == config_cache_invalidation(remote, memory[p], inbox, listening,
                                               connected[p], << >>, repo, md.ok)
                s == AfterListener(h.remote, h.memory, connected[p], h.inbox[p], md)
            IN \A k \in CacheKeys :
                  get(s.remote, s.memory, connected[p], k, md.ok).value # repo

\* ------------------------------------------------------------- the loader
\* AgentConfigLoader with its AgentConfigCache.  Both key their entries by
\* agent name and config_source; a config_source of None is written "any" in
\* config_cache keys and "default" in AgentConfigCache keys, Wild here.  The
\* key space stays below AgentConfigCache.set's limit of 1000 entries.
NumLoaderSources == 1
MaxTree == 1

LoaderSources == {Wild} \cup (1..NumLoaderSources)
LoaderKeys == [subject : Subjects, source : LoaderSources]

\* AgentConfigCache._make_key and the loader's cache_key
LoaderKey(n, src) == [subject |-> n, source |-> src]

\* AgentConfigCache.get: the store when connected and answering, else, or on
\* a miss there, the mirror
ac_get(ld, k, ok) ==
    IF ld.connected /\ ok /\ k \in ld.store THEN "store"
    ELSE IF k \in ld.mirror THEN "mirror"
    ELSE "miss"

\* AgentConfigCache.set and AgentConfigCache.delete
ac_set(ld, k, ok) ==
    [ld EXCEPT !.store = IF ld.connected /\ ok THEN @ \cup {k} ELSE @,
               !.mirror = @ \cup {k}]
ac_delete(ld, k, ok) ==
    [ld EXCEPT !.store = IF ld.connected /\ ok THEN @ \ {k} ELSE @,
               !.mirror = @ \ {k}]

\* AgentConfigLoader.load_agent_config_async: where the config came from,
\* and the loader afterwards
load_agent_config_async(ld, n, src, ok) ==
    LET k == LoaderKey(n, src) IN
    IF ld.cache /\ ac_get(ld, k, ok) # "miss"
    THEN [from |-> ac_get(ld, k, ok), loader |-> ld]
    ELSE IF k \in ld.config_cache
    THEN [from |-> "config_cache", loader |-> ld]
    ELSE LET ld1 == [ld EXCEPT !.config_cache = @ \cup {k}] IN
         [from |-> "repo",
          loader |-> IF ld.cache THEN ac_set(ld1, k, ok) ELSE ld1]

\* AgentConfigLoader.invalidate_agent
invalidate_agent(ld, n, src, ok) ==
    LET ld1 == IF ld.cache THEN ac_delete(ld, LoaderKey(n, src), ok) ELSE ld
        popped == ld1.config_cache \ {LoaderKey(n, src)}
        keys_to_remove == {k \in popped : k.subject = n}
    IN [ld1 EXCEPT !.config_cache = popped \ keys_to_remove]

\* GitRepositoryManager.clone_or_pull_all: pulled says whether a pull
\* brought a new revision
clone_or_pull_all(ld, pulled) ==
    [ld EXCEPT !.tree = IF pulled THEN @ + 1 ELSE @]

\* AgentConfigLoader.refresh_all_repos and refresh_all_repos_async
refresh_all_repos(ld, pulled) ==
    [clone_or_pull_all(ld, pulled) EXCEPT !.config_cache = {}]
refresh_all_repos_async(ld, pulled) ==
    clone_or_pull_all(ld, pulled)

LoaderStep(ld) ==
    /\ loader' = ld
    /\ UNCHANGED <<remote, memory, connected, listening, inbox, task, mod, hook>>
    /\ UNCHANGED vars

\* AgentConfigLoader.initialize_cache
InitializeCache(ok) ==
    /\ ~loader.cache
    /\ LoaderStep([loader EXCEPT !.cache = TRUE, !.connected = ok])

Load(n, src, ok) ==
    /\ loader.connected \/ ok
    /\ LoaderStep(load_agent_config_async(loader, n, src, ok).loader)

InvalidateAgent(n, src, ok) ==
    /\ loader.connected \/ ok
    /\ LoaderStep(invalidate_agent(loader, n, src, ok))

RefreshAllRepos(pulled) ==
    /\ pulled => loader.tree < MaxTree
    /\ LoaderStep(refresh_all_repos(loader, pulled))

RefreshAllReposAsync(pulled) ==
    /\ pulled => loader.tree < MaxTree
    /\ LoaderStep(refresh_all_repos_async(loader, pulled))

\* the TTL of a store entry runs out
StoreExpire(k) ==
    /\ k \in loader.store
    /\ LoaderStep([loader EXCEPT !.store = @ \ {k}])

LoaderNext ==
    \/ \E ok \in BOOLEAN : InitializeCache(ok)
    \/ \E n \in Subjects, src \in LoaderSources, ok \in BOOLEAN : Load(n, src, ok)
    \/ \E n \in Subjects, src \in LoaderSources, ok \in BOOLEAN : InvalidateAgent(n, src, ok)
    \/ \E pulled \in BOOLEAN : RefreshAllRepos(pulled)
    \/ \E pulled \in BOOLEAN : RefreshAllReposAsync(pulled)
    \/ \E k \in LoaderKeys : StoreExpire(k)

LoaderSpec == Init /\ [][LoaderNext]_cvars

\* C35: in every reachable state, after invalidate_agent(name, source), with
\* any source or none and with the store answering or not, config_cache
\* holds no key of the agent and a load of the agent under every source
\* re-reads the repository.
C35_InvalidateAgentServesNone ==
    \A n \in Subjects, src \in LoaderSources, ok \in BOOLEAN :
        LET ld == invalidate_agent(loader, n, src, ok) IN
        /\ \A k \in ld.config_cache : k.subject # n
        /\ \A src2 \in LoaderSources, ok2 \in BOOLEAN :
              load_agent_config_async(ld, n, src2, ok2).from = "repo"

\* C36: in every reachable state and for every pull result,
\* refresh_all_repos_async leaves the loader as refresh_all_repos does, with
\* an empty config_cache.
C36_AsyncRefreshSame ==
    \A pulled \in BOOLEAN :
        /\ refresh_all_repos_async(loader, pulled) = refresh_all_repos(loader, pulled)
        /\ refresh_all_repos_async(loader, pulled).config_cache = {}

\* ------------------------------------------------------------- changed files
\* A changed file path is a string, here a sequence of tokens: the
\* separator "/", the character ".", and the character runs "agents" and
\* "x".  Tokens next to each other make one longer string ("." "." is "..").
MaxPathLen == 4
MaxFiles == 2

PathTokens == {"/", ".", "agents", "x"}
Paths == UNION {[1..n -> PathTokens] : n \in 0..MaxPathLen}
FileLists(n) == [1..n -> Paths]

\* str.split("/"): the segments between the separators, empty ones kept
RECURSIVE split(_)
split(path) ==
    IF \A i \in 1..Len(path) : path[i] # "/" THEN <<path>>
    ELSE LET i == CHOOSE j \in 1..Len(path) :
                      path[j] = "/" /\ \A h \in 1..(j - 1) : path[h] # "/"
         IN <<SubSeq(path, 1, i - 1)>> \o split(SubSeq(path, i + 1, Len(path)))

\* the order of str, code point by code point: "." < "/" < "a" < "x"
TokenRank(t) == CASE t = "." -> 1 [] t = "/" -> 2 [] t = "agents" -> 3 [] t = "x" -> 4

RECURSIVE StrLess(_, _)
StrLess(a, b) ==
    IF b = << >> THEN FALSE
    ELSE IF a = << >> THEN TRUE
    ELSE IF Head(a) # Head(b) THEN TokenRank(Head(a)) < TokenRank(Head(b))
    ELSE StrLess(Tail(a), Tail(b))

\* sorted(a set of str)
RECURSIVE sorted(_)
sorted(names) ==
    IF names = {} THEN << >>
    ELSE LET least == CHOOSE a \in names : \A b \in names \ {a} : StrLess(a, b)
         IN <<least>> \o sorted(names \ {least})

\* lines 522-532: the names one path adds to the set agent_names
NamesOfPathBug(path) ==
    LET parts == split(path) IN
    {parts[i + 1] : i \in {j \in 1..(Len(parts) - 1) : parts[j] = <<"agents">>}}
NamesOfPath(path) ==
    LET parts == split(path) IN
    {parts[i + 1] : i \in {j \in 1..(Len(parts) - 1) :
                              /\ parts[j] = <<"agents">>
                              /\ parts[j + 1] # << >>
                              /\ parts[j + 1] \notin {<<".">>, <<".", ".">>}}}

\* _extract_agent_names_from_paths
extract_agent_names_from_paths(changed_files) ==
    sorted(UNION {NamesOfPath(changed_files[i]) : i \in 1..Len(changed_files)})

\* the webhook takes the names from the changed_files of one notification
Extract(files) ==
    /\ hook' = [changed_files |-> files,
                agent_names |-> extract_agent_names_from_paths(files)]
    /\ UNCHANGED <<remote, memory, connected, listening, inbox, task, mod, loader>>
    /\ UNCHANGED vars

ExtractNext ==
    /\ hook = InitHook
    /\ \E n \in 0..MaxFiles : \E files \in FileLists(n) : Extract(files)

ExtractSpec == Init /\ [][ExtractNext]_cvars

\* segment k of path follows a segment named "agents"
FollowsAgents(path, k) ==
    /\ k > 1
    /\ split(path)[k - 1] = <<"agents">>

ObjectMessage(ev) ==
    [json |-> "object", agent_name |-> ev.agent_name, config_source |-> ev.config_source]
Malformed ==
    {[json |-> j, agent_name |-> Wild, config_source |-> Wild] :
        j \in {"not_json", "not_object"}}
Messages == {ObjectMessage(ev) : ev \in Events} \cup Malformed

\* lines 319-320: json.loads(message["data"]) raises JSONDecodeError on text
\* that is not JSON; data.get(...) of _handle_invalidation raises
\* AttributeError on a value that is not a dict
HandlingError(msg) ==
    IF msg.json = "not_json" THEN "JSONDecodeError"
    ELSE IF msg.json = "not_object" THEN "AttributeError"
    ELSE ""

\* except (json.JSONDecodeError, KeyError) around the handling of a message
MessageCaught == {"JSONDecodeError", "KeyError"}

\* one turn of the listener's loop on message msg: an exception that leaves
\* the inner try is neither CancelledError nor RedisError and ends the task
listener_receive(rem, mem, conn, msg, part) ==
    LET err == HandlingError(msg)
        res == handle_invalidation(rem, mem, conn,
                   [agent_name |-> msg.agent_name,
                    config_source |-> msg.config_source], part)
    IN [listening |-> ~Escapes(err, MessageCaught),
        remote |-> IF err = "" THEN res.remote ELSE rem,
        memory |-> IF err = "" THEN res.memory ELSE mem]

ListenerReceive(p, msg, part) ==
    /\ listening[p]
    /\ LET res == listener_receive(remote, memory[p], connected[p], msg, part)
       IN /\ Apply(p, res)
          /\ listening' = [listening EXCEPT ![p] = res.listening]
    /\ UNCHANGED <<connected, inbox>>
    /\ UNCHANGED <<vars, task, mod, loader, hook>>

\* One instance and the messages other clients of the store publish
WireNext ==
    \/ \E p \in Local, ok \in BOOLEAN : Connect(p, ok)
    \/ \E p \in Local, k \in CacheKeys, v \in Payloads, ok \in BOOLEAN : CacheSet(p, k, v, ok)
    \/ \E p \in Local, msg \in Messages, part \in Parts : ListenerReceive(p, msg, part)
    \/ \E k \in CacheKeys, v \in Payloads : RemoteSet(k, v)

WireSpec == Init /\ [][WireNext]_cvars

\* C38: in every reachable state with the listener subscribed, a message
\* that is not JSON or not a JSON object leaves the listener subscribed and
\* the cache as it was, and a well-formed message received after it is
\* applied as it would have been without it.
C38_ListenerSurvivesPayload ==
    \A p \in Local, bad \in Malformed, ev \in Events, part \in Parts :
        listening[p] =>
            LET a == listener_receive(remote, memory[p], connected[p], bad, part)
                b == listener_receive(a.remote, a.memory, connected[p],
                                      ObjectMessage(ev), part)
            IN /\ a.listening
               /\ a.remote = remote /\ a.memory = memory[p]
               /\ b = listener_receive(remote, memory[p], connected[p],
                                       ObjectMessage(ev), part)

====
